---- MODULE Spec2Model ----
(***************************************************************************)
(* The Bend lexer (src/parser/lexer.rs): the logos-derived primary scanner *)
(* `Token`, the nested-comment sub-scanner `MultiLineComment`, and the     *)
(* `comment` callback that joins them.                                     *)
(*                                                                         *)
(* The source text is a sequence of bytes (a valid UTF-8 string, as a Rust *)
(* &str always is).  An ASCII byte is the one-character string of its      *)
(* character; the bytes of the non-ASCII characters used are named by      *)
(* their hexadecimal value ("xCE" "xBB" is the lambda glyph).  Offsets are *)
(* byte offsets counted from 0, as in the source.                          *)
(***************************************************************************)
EXTENDS Integers, Sequences, FiniteSets, TLC

VARIABLES
  input,        \* the borrowed source text (bytes); never changes
  token_start,  \* Lexer<Token>: start of the current span
  token_end,    \* Lexer<Token>: the primary cursor
  pc,           \* position of the caller/scanner: idle, lex, comment, done, panic
  before,       \* the primary cursor when the running next() call was made
  start,        \* comment(): offset of `start = lexer.remainder()`
  comment,      \* comment(): cursor of the sub-scanner, relative to `start`
  depth,        \* comment(): the nesting depth counter
  outcomes      \* history: every span the scanner has yielded or discarded

vars == <<input, token_start, token_end, pc, before, start, comment, depth, outcomes>>

----------------------------------------------------------------------------
(* Bytes and character classes *)

Lower == {"a","b","c","d","e","f","g","h","i","j","k","l","m",
          "n","o","p","q","r","s","t","u","v","w","x","y","z"}
Upper == {"A","B","C","D","E","F","G","H","I","J","K","L","M",
          "N","O","P","Q","R","S","T","U","V","W","X","Y","Z"}
Digit == {"0","1","2","3","4","5","6","7","8","9"}

\* [_a-zA-Z] and [_a-zA-Z0-9] of the Name pattern
IdentStart == Lower \cup Upper \cup {"_"}
IdentCont  == IdentStart \cup Digit

\* [ \t\f\r] of the Whitespace pattern
HSpace == {" ", "\t", "\f", "\r"}

\* UTF-8 continuation bytes (10xxxxxx) and the lead bytes of 2- and 3-byte
\* characters that occur in the inputs: lambda = CE BB, nu = CE BD,
\* e-acute = C3 A9, euro = E2 82 AC.
ContBytes  == {"xBB", "xBD", "xA9", "x82", "xAC"}
Lead2Bytes == {"xCE", "xC3"}
Lead3Bytes == {"xE2"}

\* s[i], 0-based; "EOF" past the end
At(s, i) == IF i >= 0 /\ i < Len(s) THEN s[i + 1] ELSE "EOF"

\* s[i..j), 0-based half-open
Slice(s, i, j) == SubSeq(s, i + 1, j)

\* str::is_char_boundary
IsBoundary(s, i) == i = 0 \/ i = Len(s) \/ (i > 0 /\ i < Len(s) /\ At(s, i) \notin ContBytes)

\* logos Source::find_boundary: the first char boundary at or after i
RECURSIVE FindBoundary(_, _)
FindBoundary(s, i) == IF i >= Len(s) \/ IsBoundary(s, i) THEN i ELSE FindBoundary(s, i + 1)

\* width in bytes of the UTF-8 character that starts at offset i
CharWidth(s, i) ==
  IF At(s, i) \in Lead2Bytes THEN 2
  ELSE IF At(s, i) \in Lead3Bytes THEN 3
  ELSE 1

\* end of the longest run of bytes of class C that starts at i
RECURSIVE RunEnd(_, _, _)
RunEnd(s, i, C) == IF At(s, i) \in C THEN RunEnd(s, i + 1, C) ELSE i

\* mutant: the line comment takes its newline with it
RECURSIVE LineEndPastNewline(_, _)
LineEndPastNewline(s, i) ==
  IF i >= Len(s) THEN i
  ELSE IF At(s, i) = "\n" THEN i + 1
  ELSE LineEndPastNewline(s, i + CharWidth(s, i))

\* end of `.*` from i: every character up to, not including, the next "\n"
RECURSIVE LineEnd(_, _)
LineEnd(s, i) ==
  IF i >= Len(s) \/ At(s, i) = "\n" THEN i ELSE LineEnd(s, i + CharWidth(s, i))

----------------------------------------------------------------------------
(* crate::ast::Number: an unsigned integer parsed from a run of digits.    *)
(* A value is kept as its canonical decimal digits (no leading zeros), so  *)
(* that values beyond the model checker's integers stay exact.             *)

DigitVal(d) ==
  CASE d = "0" -> 0 [] d = "1" -> 1 [] d = "2" -> 2 [] d = "3" -> 3 [] d = "4" -> 4
    [] d = "5" -> 5 [] d = "6" -> 6 [] d = "7" -> 7 [] d = "8" -> 8 [] d = "9" -> 9

\* u64::MAX = 2^64 - 1 = 18446744073709551615
NumberMax == <<"1","8","4","4","6","7","4","4","0","7","3","7","0","9","5","5","1","6","1","5">>

\* the digits of the value of a digit run: leading zeros dropped
RECURSIVE Canonical(_)
Canonical(ds) ==
  IF Len(ds) > 1 /\ Head(ds) = "0" THEN Canonical(Tail(ds)) ELSE ds

\* a <= b for canonical digit sequences
RECURSIVE DigitsLeq(_, _)
DigitsLeq(a, b) ==
  IF Len(a) # Len(b) THEN Len(a) < Len(b)
  ELSE IF a = <<>> THEN TRUE
  ELSE IF Head(a) # Head(b) THEN DigitVal(Head(a)) < DigitVal(Head(b))
  ELSE DigitsLeq(Tail(a), Tail(b))

\* str::parse::<unsigned>: the value, or failure ("None") when it does not fit
ParseNumber(ds) ==
  IF DigitsLeq(Canonical(ds), NumberMax)
    THEN [ok |-> TRUE, value |-> Canonical(ds)]
    ELSE [ok |-> FALSE, value |-> <<>>]

----------------------------------------------------------------------------
(* The primary scanner: #[derive(Logos)] enum Token.                       *)
(* TokenLex(s, p) is the outcome of matching at offset p < Len(s):         *)
(*   act = "emit"     the token `kind` (with `payload`) is yielded         *)
(*   act = "skip"     the span is discarded (logos::skip)                  *)
(*   act = "callback" `/*` matched: the `comment` callback decides         *)
(*   act = "error"    the error `kind` is yielded                          *)
(* and `end` is the offset the cursor is left at.                          *)

Match(act, kind, payload, end) ==
  [act |-> act, kind |-> kind, payload |-> payload, end |-> end]

\* mutant: the Name pattern wins over the keyword literals
KeywordNever(text) == "Name"

\* #[token("let")], #[token("dup")] against the Name pattern on the same
\* lexeme: the literal has the higher priority
Keyword(text) ==
  IF text = <<"l","e","t">> THEN "Let"
  ELSE IF text = <<"d","u","p">> THEN "Dup"
  ELSE "Name"

\* [_a-zA-Z][_a-zA-Z0-9]* : the longest run, then keyword or Name(slice)
IdentLex(s, p) ==
  LET e    == RunEnd(s, p + 1, IdentCont)
      text == Slice(s, p, e)
      kind == Keyword(text)
  IN  Match("emit", kind, IF kind = "Name" THEN text ELSE <<>>, e)

\* mutant: a value that does not fit is clamped to the largest one
NumberLexSaturating(s, p) ==
  LET e == RunEnd(s, p + 1, Digit)
      n == ParseNumber(Slice(s, p, e))
  IN  Match("emit", "Number", IF n.ok THEN n.value ELSE NumberMax, e)

\* [0-9]+ with the callback lex.slice().parse().map(Number).ok():
\* None becomes the default error, InvalidCharacter, over the whole run
NumberLex(s, p) ==
  LET e == RunEnd(s, p + 1, Digit)
      n == ParseNumber(Slice(s, p, e))
  IN  IF n.ok THEN Match("emit", "Number", n.value, e)
               ELSE Match("error", "InvalidCharacter", <<>>, e)

\* mutant: an error spans the one byte the generated code bumps, with no
\* move to the next char boundary
ErrorEndByte(s, p) == p + 1

\* mutant: an error that consumes nothing
ErrorEndStuck(s, p) == p

\* no pattern matches at p: the generated code bumps one byte, and
\* Lexer::error moves the end of the span on to the next char boundary
ErrorEnd(s, p) == FindBoundary(s, p + 1)

InvalidLex(s, p) == Match("error", "InvalidCharacter", <<>>, ErrorEnd(s, p))

\* "=" and "=="
EqualsLex(s, p) ==
  IF At(s, p + 1) = "=" THEN Match("emit", "EqualsEquals", <<>>, p + 2)
  ELSE Match("emit", "Equals", <<>>, p + 1)

\* mutant: the one-character operator wins over its longer forms
LtnLexShort(s, p) == Match("emit", "Ltn", <<>>, p + 1)

\* "<", "<<" and "<="
LtnLex(s, p) ==
  IF At(s, p + 1) = "<" THEN Match("emit", "Shl", <<>>, p + 2)
  ELSE IF At(s, p + 1) = "=" THEN Match("emit", "Lte", <<>>, p + 2)
  ELSE Match("emit", "Ltn", <<>>, p + 1)

\* ">", ">>" and ">="
GtnLex(s, p) ==
  IF At(s, p + 1) = ">" THEN Match("emit", "Shr", <<>>, p + 2)
  ELSE IF At(s, p + 1) = "=" THEN Match("emit", "Gte", <<>>, p + 2)
  ELSE Match("emit", "Gtn", <<>>, p + 1)

\* "!=" ; a lone "!" matches nothing
NotEqualsLex(s, p) ==
  IF At(s, p + 1) = "=" THEN Match("emit", "NotEquals", <<>>, p + 2)
  ELSE InvalidLex(s, p)

\* mutant: the line comment is a token like any other (no logos::skip)
DivLexEmitComment(s, p) ==
  IF At(s, p + 1) = "/" THEN Match("emit", "SingleLineComment", <<>>, LineEnd(s, p + 2))
  ELSE IF At(s, p + 1) = "*" THEN Match("callback", "MultiLineComment", <<>>, p + 2)
  ELSE Match("emit", "Div", <<>>, p + 1)

\* "/", "//.*" (skipped) and "/*" (the comment callback)
DivLex(s, p) ==
  IF At(s, p + 1) = "/" THEN Match("skip", "SingleLineComment", <<>>, LineEnd(s, p + 2))
  ELSE IF At(s, p + 1) = "*" THEN Match("callback", "MultiLineComment", <<>>, p + 2)
  ELSE Match("emit", "Div", <<>>, p + 1)

\* mutant: only the ASCII marker is a lambda
LambdaLexAscii(s, p) ==
  IF At(s, p) = "@" THEN Match("emit", "Lambda", <<>>, p + 1)
  ELSE InvalidLex(s, p)

\* "@" and the two bytes of the lambda glyph
LambdaLex(s, p) ==
  IF At(s, p) = "@" THEN Match("emit", "Lambda", <<>>, p + 1)
  ELSE IF At(s, p) = "xCE" /\ At(s, p + 1) = "xBB" THEN Match("emit", "Lambda", <<>>, p + 2)
  ELSE InvalidLex(s, p)

\* the one-byte tokens that are a prefix of no other pattern
SingleToken ==
  [b \in {"+", "-", "*", "%", "&", "|", "^", ";", "(", ")", "\n"} |->
     CASE b = "+" -> "Add" [] b = "-" -> "Sub" [] b = "*" -> "Mul" [] b = "%" -> "Mod"
       [] b = "&" -> "And" [] b = "|" -> "Or" [] b = "^" -> "Xor" [] b = ";" -> "Semicolon"
       [] b = "(" -> "LParen" [] b = ")" -> "RParen" [] b = "\n" -> "NewLine"]

TokenLex(s, p) ==
  LET b == At(s, p) IN
  IF b \in IdentStart THEN IdentLex(s, p)
  ELSE IF b \in Digit THEN NumberLex(s, p)
  ELSE IF b \in {"@", "xCE"} THEN LambdaLex(s, p)
  ELSE IF b = "=" THEN EqualsLex(s, p)
  ELSE IF b = "<" THEN LtnLex(s, p)
  ELSE IF b = ">" THEN GtnLex(s, p)
  ELSE IF b = "!" THEN NotEqualsLex(s, p)
  ELSE IF b = "/" THEN DivLex(s, p)
  ELSE IF b \in DOMAIN SingleToken THEN Match("emit", SingleToken[b], <<>>, p + 1)
  ELSE IF b \in HSpace THEN Match("skip", "Whitespace", <<>>, RunEnd(s, p + 1, HSpace))
  ELSE InvalidLex(s, p)

----------------------------------------------------------------------------
(* The comment sub-scanner: #[derive(Logos)] enum MultiLineComment.        *)
(* MultiLineCommentLex(s, p) is its next token at offset p < Len(s).       *)

\* mutant: `.` without (?s) does not match a newline
OtherLexNoNewline(s, p) ==
  IF At(s, p) \in ContBytes \cup {"\n"} THEN [kind |-> "Err", end |-> FindBoundary(s, p + 1)]
  ELSE [kind |-> "Other", end |-> p + CharWidth(s, p)]

\* mutant: Other matches without consuming anything
OtherLexEmpty(s, p) == [kind |-> "Other", end |-> p]

\* (?s). : any one character, "\n" included; never a lone continuation byte
OtherLex(s, p) ==
  IF At(s, p) \in ContBytes THEN [kind |-> "Err", end |-> FindBoundary(s, p + 1)]
  ELSE [kind |-> "Other", end |-> p + CharWidth(s, p)]

\* mutant: the scan overlaps: after an Open the search resumes at the
\* opener's second character
MultiLineCommentLexOverlap(s, p) ==
  IF At(s, p) = "/" /\ At(s, p + 1) = "*" THEN [kind |-> "Open", end |-> p + 1]
  ELSE IF At(s, p) = "*" /\ At(s, p + 1) = "/" THEN [kind |-> "Close", end |-> p + 2]
  ELSE OtherLex(s, p)

\* mutant: the sub-scanner knows line comments: `//` hides the rest of its
\* line
MultiLineCommentLexLine(s, p) ==
  IF At(s, p) = "/" /\ At(s, p + 1) = "*" THEN [kind |-> "Open", end |-> p + 2]
  ELSE IF At(s, p) = "*" /\ At(s, p + 1) = "/" THEN [kind |-> "Close", end |-> p + 2]
  ELSE IF At(s, p) = "/" /\ At(s, p + 1) = "/" THEN [kind |-> "Other", end |-> LineEnd(s, p + 2)]
  ELSE OtherLex(s, p)

MultiLineCommentLex(s, p) ==
  IF At(s, p) = "/" /\ At(s, p + 1) = "*" THEN [kind |-> "Open", end |-> p + 2]
  ELSE IF At(s, p) = "*" /\ At(s, p + 1) = "/" THEN [kind |-> "Close", end |-> p + 2]
  ELSE OtherLex(s, p)

\* mutant: an Open token is not counted, so the first `*/` closes the comment
DepthAfterFlat(d, kind) ==
  IF kind = "Close" THEN d - 1 ELSE d

\* line 123: `let mut depth = 1;` with no other constraint on its type is
\* an i32
DepthMax == 2147483647
DepthMin == (-2147483647) - 1

\* line 127 at depth = i32::MAX: `depth += 1` overflows
Overflows(d, kind) == kind = "Open" /\ d = DepthMax

\* lines 127-129: the effect of a sub-scanner token on depth, in two's
\* complement on 32 bits (what an unchecked `+= 1` leaves behind)
DepthAfter(d, kind) ==
  IF kind = "Open" THEN (IF d = DepthMax THEN DepthMin ELSE d + 1)
  ELSE IF kind = "Close" THEN d - 1
  ELSE d

\* line 136: the loop's exit test
Closed(d) == d <= 0

\* mutant: the span is measured from the opener, not from the remainder
CommentSpanFromOpener(startAddr, endAddr) == endAddr - (startAddr - 2)

\* lines 140-141: end - start, both as addresses into the source text
CommentSpan(startAddr, endAddr) == endAddr - startAddr

----------------------------------------------------------------------------
(* The inputs explored: every concatenation of up to MaxPieces pieces of   *)
(* one family, every comment text of up to MaxCommentLen bytes, and a few  *)
(* named inputs, those of the specification's examples among them.         *)

MaxPieces == 4
MaxCommentLen == 8

RECURSIVE Words(_, _)
Words(A, n) ==
  IF n = 0 THEN {<<>>}
  ELSE LET W == Words(A, n - 1) IN W \cup {w \o a : w \in W, a \in A}

LetBytes == <<"l","e","t">>
DupBytes == <<"d","u","p">>
LambdaBytes == <<"xCE","xBB">>
TooBig == <<"1","8","4","4","6","7","4","4","0","7","3","7","0","9","5","5","1","6","1","6">>

WordPieces    == {LetBytes, DupBytes, <<"x">>, <<"_">>, <<"1">>, <<" ">>, <<"#">>}
OpPieces      == {<<"<">>, <<"=">>, <<">">>, <<"!">>, <<"1">>}
LinePieces    == {<<"/","/">>, <<"/","*">>, <<"*","/">>, <<"\n">>, <<"a">>, <<"\t">>}
UnicodePieces == {LambdaBytes, <<"@">>, <<"xCE","xBD">>, <<"xC3","xA9">>, <<"xE2","x82","xAC">>,
                  <<"/","*">>, <<"*","/">>, <<"\n">>}
NumberPieces  == {NumberMax, TooBig, <<"0">>, <<"9">>, <<";">>}
CommentBytes  == {<<"/">>, <<"*">>, <<"a">>}

\* `let x = 3`, `1<<2>>1`, `/* a /* b */ c */`, `/* unterminated`
ExLet     == <<"l","e","t"," ","x"," ","="," ","3">>
ExShift   == <<"1","<","<","2",">",">","1">>
ExNested  == <<"/","*"," ","a"," ","/","*"," ","b"," ","*","/"," ","c"," ","*","/">>
ExUnterminated == <<"/","*"," ","u","n","t","e","r","m","i","n","a","t","e","d">>
\* one input with a token, whitespace, both kinds of comment, a newline and
\* an unrecognized character: `x /*c*/ //d` newline `#`
ExMixed   == <<"x"," ","/","*","c","*","/"," ","/","/","d","\n","#">>
\* the one-byte operators and punctuation: `+-*/%&|^;()`
ExOps     == <<"+","-","*","/","%","&","|","^",";","(",")">>
\* `/*/*/ */*/`: the first `*/` substring, at offset 3, straddles the inner
\* opener and the character after it
ExOverlap == <<"/","*","/","*","/"," ","*","/","*","/">>
Examples  == {ExLet, ExShift, ExNested, ExUnterminated, ExMixed, ExOps, ExOverlap}

Inputs ==
  Words(WordPieces, MaxPieces) \cup Words(OpPieces, MaxPieces)
    \cup Words(LinePieces, MaxPieces) \cup Words(UnicodePieces, MaxPieces)
    \cup Words(NumberPieces, MaxPieces) \cup Words(CommentBytes, MaxCommentLen)
    \cup Examples

MaxFairPieces == 3
MaxFairLen == 5

FairInputs ==
  Words(OpPieces, MaxFairPieces) \cup Words(LinePieces, MaxFairPieces)
    \cup Words(CommentBytes, MaxFairLen)
    \cup Examples

----------------------------------------------------------------------------
(* The scanner as a state machine.  pc is "idle" between calls of next()   *)
(* that returned a value, "lex" inside next() at the primary patterns,     *)
(* "comment" inside the loop of comment(), "done" once next() has returned *)
(* None, "panic" after a panic.                                            *)

Yield(kind, payload, s, e) ==
  [disp |-> "yield", kind |-> kind, payload |-> payload, start |-> s, end |-> e]
Discard(kind, s, e) ==
  [disp |-> "skip", kind |-> kind, payload |-> <<>>, start |-> s, end |-> e]

Init ==
  /\ input \in Inputs
  /\ token_start = 0
  /\ token_end = 0
  /\ pc = "idle"
  /\ before = 0
  /\ start = 0
  /\ comment = 0
  /\ depth = 0
  /\ outcomes = <<>>

\* Iterator::next on Lexer<Token>: the new span starts where the last ended
NextCall ==
  /\ pc \in {"idle", "done"}
  /\ pc' = "lex"
  /\ token_start' = token_end
  /\ before' = token_end
  /\ UNCHANGED <<input, token_end, start, comment, depth, outcomes>>

\* end of input: next() returns None
LexEnd ==
  /\ pc = "lex"
  /\ token_end = Len(input)
  /\ pc' = "done"
  /\ UNCHANGED <<input, token_start, token_end, before, start, comment, depth, outcomes>>

\* a pattern with a token matches: next() returns Some(Ok(token))
LexToken ==
  /\ pc = "lex"
  /\ token_end < Len(input)
  /\ LET m == TokenLex(input, token_end) IN
       /\ m.act = "emit"
       /\ token_end' = m.end
       /\ outcomes' = Append(outcomes, Yield(m.kind, m.payload, token_start, m.end))
  /\ pc' = "idle"
  /\ UNCHANGED <<input, token_start, before, start, comment, depth>>

\* nothing matches, or the Number callback fails: next() returns Some(Err(_))
LexError ==
  /\ pc = "lex"
  /\ token_end < Len(input)
  /\ LET m == TokenLex(input, token_end) IN
       /\ m.act = "error"
       /\ token_end' = m.end
       /\ outcomes' = Append(outcomes, Yield(m.kind, m.payload, token_start, m.end))
  /\ pc' = "idle"
  /\ UNCHANGED <<input, token_start, before, start, comment, depth>>

\* logos::skip: the span is dropped (Lexer::trivia) and matching goes on
LexSkip ==
  /\ pc = "lex"
  /\ token_end < Len(input)
  /\ LET m == TokenLex(input, token_end) IN
       /\ m.act = "skip"
       /\ token_end' = m.end
       /\ token_start' = m.end
       /\ outcomes' = Append(outcomes, Discard(m.kind, token_start, m.end))
  /\ UNCHANGED <<input, pc, before, start, comment, depth>>

\* `/*` matched: comment() is entered (lines 121-123)
CommentEnter ==
  /\ pc = "lex"
  /\ token_end < Len(input)
  /\ LET m == TokenLex(input, token_end) IN
       /\ m.act = "callback"
       /\ token_end' = m.end
       /\ start' = m.end
  /\ comment' = 0
  /\ depth' = 1
  /\ pc' = "comment"
  /\ UNCHANGED <<input, token_start, before, outcomes>>

\* mutant: the primary cursor follows the sub-scanner to where it stopped
CommentUnclosedBump ==
  /\ pc = "comment"
  /\ start + comment >= Len(input)
  /\ token_end' = start + comment
  /\ outcomes' = Append(outcomes, Yield("UnclosedComment", <<>>, token_start, start + comment))
  /\ pc' = "idle"
  /\ UNCHANGED <<input, token_start, before, start, comment, depth>>

\* the sub-scanner is exhausted (lines 132-135): FilterResult::Error, which
\* next() returns as Some(Err(UnclosedComment)) over the span of the opener
CommentUnclosed ==
  /\ pc = "comment"
  /\ start + comment >= Len(input)
  /\ outcomes' = Append(outcomes, Yield("UnclosedComment", <<>>, token_start, token_end))
  /\ pc' = "idle"
  /\ UNCHANGED <<input, token_start, token_end, before, start, comment, depth>>

\* one iteration of the loop (lines 125-138) and, when it breaks, lines
\* 140-143: bump the primary cursor by the span and skip.  `checked` is the
\* build's overflow-checks setting: an overflowing `depth += 1` panics when
\* it is on (the default of a debug build) and wraps when it is off (the
\* default of a release build).
CommentStep ==
  /\ pc = "comment"
  /\ start + comment < Len(input)
  /\ \E checked \in BOOLEAN :
     LET c    == MultiLineCommentLex(input, start + comment)
         d    == DepthAfter(depth, c.kind)
         span == CommentSpan(start, c.end)
         to   == token_end + span
     IN  IF c.kind = "Err" \/ (checked /\ Overflows(depth, c.kind))
           THEN /\ pc' = "panic"
                /\ UNCHANGED <<token_start, token_end, comment, depth, outcomes>>
         ELSE IF ~Closed(d)
           THEN /\ comment' = c.end - start
                /\ depth' = d
                /\ UNCHANGED <<pc, token_start, token_end, outcomes>>
         ELSE IF span >= 0 /\ to <= Len(input) /\ IsBoundary(input, to)
           THEN /\ comment' = c.end - start
                /\ depth' = d
                /\ token_end' = to
                /\ token_start' = to
                /\ outcomes' = Append(outcomes, Discard("MultiLineComment", token_start, to))
                /\ pc' = "lex"
         ELSE   /\ comment' = c.end - start
                /\ depth' = d
                /\ pc' = "panic"
                /\ UNCHANGED <<token_start, token_end, outcomes>>
  /\ UNCHANGED <<input, before, start>>

Next ==
  \/ NextCall
  \/ LexEnd
  \/ LexToken
  \/ LexError
  \/ LexSkip
  \/ CommentEnter
  \/ CommentUnclosed
  \/ CommentStep

Spec == Init /\ [][Next]_vars

\* The scanner is single-threaded and synchronous and the caller keeps
\* pulling: no step waits.  Behaviours are checked over the inputs FairInputs.
FairInit ==
  /\ input \in FairInputs
  /\ token_start = 0
  /\ token_end = 0
  /\ pc = "idle"
  /\ before = 0
  /\ start = 0
  /\ comment = 0
  /\ depth = 0
  /\ outcomes = <<>>

FairSpec == FairInit /\ [][Next]_vars /\ WF_vars(Next)

\* The loop of comment() deep inside one comment.  depth counts the openers
\* still unmatched, so it is 2^31 - 1 once that many `/*` are open, which
\* takes a text of 4 GiB: such a text is not enumerated.  DepthInit is the
\* loop at the start of an iteration with `input` the text from the
\* sub-scanner's cursor on (comment.remainder()), offsets counted from
\* there, and depth either small or at the top of its range.
MaxDepthLen == 4
DepthBytes   == {<<"/">>, <<"*">>, <<"#">>}
DepthInputs  == Words(DepthBytes, MaxDepthLen)
DepthSamples == {1, 2, DepthMax - 1, DepthMax}

DepthInit ==
  /\ input \in DepthInputs
  /\ token_start = 0
  /\ token_end = 0
  /\ pc = "comment"
  /\ before = 0
  /\ start = 0
  /\ comment = 0
  /\ depth \in DepthSamples
  /\ outcomes = <<>>

DepthSpec == DepthInit /\ [][Next]_vars

\* the results next() has returned so far, in order
Results == SelectSeq(outcomes, LAMBDA o : o.disp = "yield")

\* comment() as a function of the text s and the sub-scanner's offset q, at
\* depth d: the offset the primary cursor is bumped to, -1 for
\* FilterResult::Error(UnclosedComment), -2 for a panic
RECURSIVE CommentLoop(_, _, _)
CommentLoop(s, q, d) ==
  IF q >= Len(s) THEN -1
  ELSE LET c  == MultiLineCommentLex(s, q)
           dd == DepthAfter(d, c.kind)
       IN  IF c.kind = "Err" THEN -2
           ELSE IF ~Closed(dd) THEN CommentLoop(s, c.end, dd)
           ELSE IF IsBoundary(s, c.end) THEN c.end ELSE -2

\* Token::lexer(s) advanced to offset p and then drained: the results of
\* next() until None, in order (cut short by a panic)
RECURSIVE LexFrom(_, _)
LexFrom(s, p) ==
  IF p >= Len(s) THEN <<>>
  ELSE LET m == TokenLex(s, p) IN
    IF m.act \in {"emit", "error"}
      THEN <<Yield(m.kind, m.payload, p, m.end)>> \o LexFrom(s, m.end)
    ELSE IF m.act = "skip" THEN LexFrom(s, m.end)
    ELSE LET e == CommentLoop(s, m.end, 1) IN
         IF e = -1 THEN <<Yield("UnclosedComment", <<>>, p, m.end)>> \o LexFrom(s, m.end)
         ELSE IF e = -2 THEN <<>>
         ELSE LexFrom(s, e)

\* a fresh scanner over the text s, drained
Lex(s) == LexFrom(s, 0)

----------------------------------------------------------------------------
(* impl fmt::Display for Token: the text a token is written as.            *)

\* lines 149-180: the tokens written as a fixed text
FixedText ==
  [k \in {"Lambda", "Let", "Dup", "Equals", "Add", "Sub", "Mul", "Div", "Mod", "And",
          "Or", "Xor", "Shl", "Shr", "Ltn", "Lte", "Gtn", "Gte", "NotEquals",
          "EqualsEquals", "Semicolon", "LParen", "RParen"} |->
     CASE k = "Lambda" -> LambdaBytes [] k = "Let" -> LetBytes [] k = "Dup" -> DupBytes
       [] k = "Equals" -> <<"=">> [] k = "Add" -> <<"+">> [] k = "Sub" -> <<"-">>
       [] k = "Mul" -> <<"*">> [] k = "Div" -> <<"/">> [] k = "Mod" -> <<"%">>
       [] k = "And" -> <<"&">> [] k = "Or" -> <<"|">> [] k = "Xor" -> <<"^">>
       [] k = "Shl" -> <<"<","<">> [] k = "Shr" -> <<">",">">>
       [] k = "Ltn" -> <<"<">> [] k = "Lte" -> <<"<","=">>
       [] k = "Gtn" -> <<">">> [] k = "Gte" -> <<">","=">>
       [] k = "NotEquals" -> <<"!","=">> [] k = "EqualsEquals" -> <<"=","=">>
       [] k = "Semicolon" -> <<";">> [] k = "LParen" -> <<"(">> [] k = "RParen" -> <<")">>]

\* lines 174-180: the tokens written as a placeholder in angle brackets
Placeholder ==
  [k \in {"NewLine", "SingleLineComment", "MultiLineComment", "Whitespace",
          "InvalidCharacter", "UnclosedComment"} |->
     CASE k = "NewLine" -> <<"<","N","e","w","L","i","n","e",">">>
       [] k = "SingleLineComment" ->
            <<"<","S","i","n","g","l","e","L","i","n","e","C","o","m","m","e","n","t",">">>
       [] k = "MultiLineComment" ->
            <<"<","M","u","l","t","i","L","i","n","e","C","o","m","m","e","n","t",">">>
       [] k = "Whitespace" -> <<"<","W","h","i","t","e","s","p","a","c","e",">">>
       [] k = "InvalidCharacter" ->
            <<"<","I","n","v","a","l","i","d","C","h","a","r","a","c","t","e","r",">">>
       [] k = "UnclosedComment" ->
            <<"<","U","n","c","l","o","s","e","d","C","o","m","m","e","n","t",">">>]

\* line 154, write!(f, "{}", num.as_ref()): the value in decimal, which is
\* what a value is kept as
NumberText(value) == value

\* mutant: the shifts are written as the comparisons they start with
RenderShiftSlip(kind, payload) ==
  IF kind = "Name" THEN payload
  ELSE IF kind = "Number" THEN NumberText(payload)
  ELSE IF kind = "Shl" THEN <<"<">>
  ELSE IF kind = "Shr" THEN <<">">>
  ELSE IF kind \in DOMAIN FixedText THEN FixedText[kind]
  ELSE Placeholder[kind]

\* Display::fmt for the token `kind` carrying `payload`
Render(kind, payload) ==
  IF kind = "Name" THEN payload
  ELSE IF kind = "Number" THEN NumberText(payload)
  ELSE IF kind \in DOMAIN FixedText THEN FixedText[kind]
  ELSE Placeholder[kind]

----------------------------------------------------------------------------
(* Reference notions the properties are stated against.                    *)

IsOpen(s, p)  == At(s, p) = "/" /\ At(s, p + 1) = "*"
IsClose(s, p) == At(s, p) = "*" /\ At(s, p + 1) = "/"

\* The grammar of a block comment, comment ::= "/*" (comment | char)* "*/",
\* read by recursive descent: for p just after an opener, the offset just
\* after its matching closer, or -1 when the text ends first.
RECURSIVE CommentEnd(_, _)
CommentEnd(s, p) ==
  IF p >= Len(s) THEN -1
  ELSE IF IsClose(s, p) THEN p + 2
  ELSE IF IsOpen(s, p)
    THEN LET e == CommentEnd(s, p + 2) IN IF e = -1 THEN -1 ELSE CommentEnd(s, e)
  ELSE CommentEnd(s, p + CharWidth(s, p))

Last(q) == q[Len(q)]
IsYield(o)   == o.disp = "yield"
IsError(o)   == o.disp = "yield" /\ o.kind \in {"InvalidCharacter", "UnclosedComment"}
IsComment(o) == o.disp = "skip" /\ o.kind = "MultiLineComment"
Text(o)      == Slice(input, o.start, o.end)
Outs         == {outcomes[i] : i \in 1..Len(outcomes)}

----------------------------------------------------------------------------
\* C1: a `/*` followed by properly nested content and its matching `*/` is
\* discarded whole: the step ends with the cursor just after the closer that
\* matches the opener (an inner `*/` does not end it), it yields no error,
\* and no token or error lies inside the region; `/* a /* b */ c */` drains
\* to an empty stream.
C1_NestedCommentDiscarded ==
  /\ \A o \in Outs :
       /\ IsComment(o) => o.end = CommentEnd(input, o.start + 2)
       /\ o.kind = "UnclosedComment" => CommentEnd(input, o.start + 2) = -1
       /\ IsComment(o) =>
            \A y \in Outs : IsYield(y) => (y.end <= o.start \/ y.start >= o.end)
  /\ (pc = "lex" /\ outcomes # <<>> /\ IsComment(Last(outcomes)))
       => token_end = CommentEnd(input, Last(outcomes).start + 2)
  /\ (pc = "done" /\ input = ExNested) => Results = <<>>

C1_Witness ==
  /\ pc = "done"
  /\ input = ExNested
  /\ outcomes = <<Discard("MultiLineComment", 0, 17)>>

\* C2: an input that is a `/*` opener with no matching `*/` drains to exactly
\* one UnclosedComment error and no token.
C2_UnterminatedOneError ==
  (pc = "done" /\ IsOpen(input, 0) /\ CommentEnd(input, 2) = -1)
    => (Len(Results) = 1 /\ Results[1].kind = "UnclosedComment")

\* C3 as stated: a stray `*/` is left to the primary scanner, which reports
\* it as InvalidCharacter and not as an operator token.
C3_StrayCloseInvalid ==
  \A o \in Outs :
    /\ IsComment(o) => o.end = CommentEnd(input, o.start + 2)
    /\ (IsYield(o) /\ IsClose(input, o.start)) => o.kind = "InvalidCharacter"

\* C3 amended: a stray `*/` is not consumed by the comment sub-scan (the
\* discarded region ends at the matching closer), and the primary scanner
\* reads its `*` as the token Mul, one byte long, and then its `/` under the
\* usual rules: Div unless `/` or `*` follows it. It is never an error.
C3_StrayCloseIsMulDiv ==
  /\ \A o \in Outs : IsComment(o) => o.end = CommentEnd(input, o.start + 2)
  /\ \A i \in 1..Len(outcomes) :
       LET o == outcomes[i] IN
       IsClose(input, o.start) =>
         /\ o = Yield("Mul", <<>>, o.start, o.start + 1)
         /\ (i < Len(outcomes) /\ At(input, o.start + 2) \notin {"/", "*"})
              => outcomes[i + 1] = Yield("Div", <<>>, o.start + 1, o.start + 2)
         /\ i < Len(outcomes) => outcomes[i + 1].kind # "InvalidCharacter"

\* the stray closer follows a closed comment and has been read
C3_Witness ==
  /\ Len(outcomes) >= 3
  /\ IsComment(outcomes[1])
  /\ IsClose(input, outcomes[1].end)
  /\ outcomes[2].kind = "Mul"
  /\ outcomes[3].kind = "Div"

\* C4: the primary cursor never moves backward, and every call of next()
\* that returns a value (a token or an error, InvalidCharacter and
\* UnclosedComment included) leaves the cursor at least one whole character
\* beyond where it was when the call was made.
C4_CursorAdvances ==
  [][ /\ token_end' >= token_end
      /\ (pc # "idle" /\ pc' = "idle")
           => /\ token_end' >= before + CharWidth(input, before)
              /\ token_end' > before
              /\ IsBoundary(input, token_end') ]_vars

\* both kinds of error have been returned
C4_Witness ==
  /\ pc = "idle"
  /\ token_end > before
  /\ \E o \in Outs : o.kind = "InvalidCharacter"
  /\ Last(outcomes).kind = "UnclosedComment"

\* C5: on every input, repeated calls of next() reach the end-of-input
\* signal, the results yielded never outnumber the bytes of the input, and
\* the loop of the comment sub-scan is always left.
C5_Terminates ==
  /\ <>(pc = "done")
  /\ [](Len(Results) <= Len(input))
  /\ (pc = "comment") ~> (pc # "comment")

\* drained, after a comment sub-scan, with as many results as bytes allow
C5_Witness ==
  /\ pc = "done"
  /\ Len(input) >= 3
  /\ \E o \in Outs : o.kind = "UnclosedComment"
  /\ Len(Results) = Len(input) - 1

\* C6: the spans of the outcomes (tokens, discarded whitespace runs, line
\* comments and block comments, errors) are non-empty, start at offset 0,
\* each begins where the one before ended, and once the scanner is drained
\* they end at the end of the input; a discarded span is a whole whitespace
\* run, line comment or block comment.
C6_SpansCoverInput ==
  /\ \A i \in 1..Len(outcomes) :
       LET o == outcomes[i] IN
       /\ o.start < o.end
       /\ o.start = (IF i = 1 THEN 0 ELSE outcomes[i - 1].end)
       /\ o.end <= Len(input)
       /\ (o.disp = "skip" /\ o.kind = "Whitespace")
            => \A k \in o.start..(o.end - 1) : At(input, k) \in HSpace
       /\ (o.disp = "skip" /\ o.kind = "SingleLineComment")
            => /\ At(input, o.start) = "/" /\ At(input, o.start + 1) = "/"
               /\ \A k \in o.start..(o.end - 1) : At(input, k) # "\n"
       /\ IsComment(o)
            => /\ IsOpen(input, o.start)
               /\ o.end >= o.start + 4
               /\ IsClose(input, o.end - 2)
  /\ pc \in {"idle", "lex", "done"}
       => token_end = (IF outcomes = <<>> THEN 0 ELSE Last(outcomes).end)
  /\ pc = "done" => token_end = Len(input)

\* drained, with an outcome of every category
C6_Witness ==
  /\ pc = "done"
  /\ token_end = Len(input)
  /\ \E o \in Outs : o.kind = "InvalidCharacter"
  /\ \E o \in Outs : o.kind = "Name"
  /\ \E o \in Outs : IsComment(o)
  /\ \E o \in Outs : o.disp = "skip" /\ o.kind = "SingleLineComment"
  /\ \E o \in Outs : o.disp = "skip" /\ o.kind = "Whitespace"
  /\ \E o \in Outs : o.kind = "NewLine"

----------------------------------------------------------------------------
\* The grammar of section 4.1, as a test on a text from offset i on:
\* identifiers and keywords, lambda markers, runs of digits, the listed
\* operators and punctuation, newlines, horizontal whitespace, line
\* comments, and block comments that are properly nested and closed.
\* With ranged = TRUE every maximal run of digits must also denote a value
\* that Number can hold.
Punctuation == {"=", "<", ">", "+", "-", "*", "/", "%", "&", "|", "^", ";", "(", ")"}

RECURSIVE InGrammar(_, _, _)
InGrammar(s, i, ranged) ==
  IF i >= Len(s) THEN TRUE
  ELSE LET b == At(s, i) IN
    IF b \in IdentStart THEN InGrammar(s, RunEnd(s, i + 1, IdentCont), ranged)
    ELSE IF b \in Digit
      THEN LET e == RunEnd(s, i + 1, Digit) IN
           /\ ranged => DigitsLeq(Canonical(Slice(s, i, e)), NumberMax)
           /\ InGrammar(s, e, ranged)
    ELSE IF b = "@" THEN InGrammar(s, i + 1, ranged)
    ELSE IF <<b, At(s, i + 1)>> = LambdaBytes THEN InGrammar(s, i + 2, ranged)
    ELSE IF b = "!" THEN At(s, i + 1) = "=" /\ InGrammar(s, i + 2, ranged)
    ELSE IF b = "/" /\ At(s, i + 1) = "/" THEN InGrammar(s, LineEnd(s, i + 2), ranged)
    ELSE IF IsOpen(s, i)
      THEN /\ CommentEnd(s, i + 2) # -1
           /\ InGrammar(s, CommentEnd(s, i + 2), ranged)
    ELSE IF b \in Punctuation \cup HSpace \cup {"\n"} THEN InGrammar(s, i + 1, ranged)
    ELSE FALSE

\* C7 as stated: an input built only from lexemes of the grammar, runs of
\* one or more digits of any length among them, drains without any
\* InvalidCharacter or UnclosedComment result.
C7_GrammarNoErrors ==
  (pc = "done" /\ InGrammar(input, 0, FALSE)) => \A o \in Outs : ~IsError(o)

\* C7 amended: an input built only from lexemes of the grammar in which
\* every maximal run of digits denotes a value within the range of Number
\* yields no InvalidCharacter and no UnclosedComment result, at any point of
\* the scan.
C7_RangedGrammarNoErrors ==
  InGrammar(input, 0, TRUE) => \A o \in Outs : ~IsError(o)

\* drained without error: the largest Number, a lambda glyph and a comment
C7_Witness ==
  /\ pc = "done"
  /\ InGrammar(input, 0, TRUE)
  /\ \E o \in Outs : o.kind = "Number" /\ o.payload = NumberMax

C7_WitnessComment ==
  /\ pc = "done"
  /\ InGrammar(input, 0, TRUE)
  /\ \E o \in Outs : o.kind = "Lambda" /\ o.end = o.start + 2
  /\ \E o \in Outs : IsComment(o)

\* C8: the scanner never panics: in the comment sub-scan one of Open, Close
\* and Other matches at every position short of the end (newlines and
\* non-ASCII characters included), the sub-scanner's cursor stays on a
\* character boundary within the text, so end - start is never negative and
\* the bump never passes the end of the input or splits a character.
C8_NoPanic ==
  /\ pc # "panic"
  /\ pc = "comment" =>
       /\ CommentSpan(start, start + comment) >= 0
       /\ token_end + CommentSpan(start, start + comment) <= Len(input)
       /\ IsBoundary(input, token_end + CommentSpan(start, start + comment))
       /\ start + comment < Len(input)
            => MultiLineCommentLex(input, start + comment).kind \in {"Open", "Close", "Other"}
  /\ IsBoundary(input, token_end)
  /\ token_end <= Len(input)

\* a comment holding a newline and a three-byte character has been bumped over
C8_Witness ==
  /\ pc = "lex"
  /\ outcomes # <<>>
  /\ IsComment(Last(outcomes))
  /\ \E k \in Last(outcomes).start..(token_end - 1) : At(input, k) = "\n"
  /\ \E k \in Last(outcomes).start..(token_end - 1) : At(input, k) = "xE2"

\* C9: an identifier-shaped lexeme is the longest run of identifier
\* characters; it is emitted as Let when it is exactly `let`, as Dup when it
\* is exactly `dup`, and otherwise as one Name carrying the whole lexeme
\* (`letx`, `dup_`), so no Name carries `let` or `dup`.
C9_KeywordPrecedence ==
  \A o \in Outs :
    /\ (IsYield(o) /\ At(input, o.start) \in IdentStart) =>
         /\ o.end = RunEnd(input, o.start, IdentCont)
         /\ o.kind = (IF Text(o) = LetBytes THEN "Let"
                      ELSE IF Text(o) = DupBytes THEN "Dup" ELSE "Name")
         /\ o.payload = (IF o.kind = "Name" THEN Text(o) ELSE <<>>)
    /\ o.kind = "Name" => o.payload \notin {LetBytes, DupBytes}
    /\ o.kind \in {"Let", "Dup", "Name"} => At(input, o.start) \in IdentStart

\* `let letx` has been read as Let, Name("letx")
C9_Witness ==
  /\ pc = "done"
  /\ Len(Results) = 2
  /\ Results[1].kind = "Let"
  /\ Results[2].kind = "Name"
  /\ Results[2].payload = <<"l","e","t","x">>

C9_WitnessDup ==
  /\ pc = "done"
  /\ Results = <<Yield("Name", <<"d","u","p","_">>, 0, 4)>>

\* C10: where a two-character operator (`==`, `!=`, `<=`, `>=`, `<<`, `>>`)
\* stands at the cursor, the result is that operator's token, two bytes
\* long, never the token of its first character; `1<<2>>1` drains to
\* Number(1), Shl, Number(2), Shr, Number(1).
TwoCharOperator(s, p) ==
  LET w == <<At(s, p), At(s, p + 1)>> IN
  IF w = <<"=","=">> THEN "EqualsEquals"
  ELSE IF w = <<"!","=">> THEN "NotEquals"
  ELSE IF w = <<"<","=">> THEN "Lte"
  ELSE IF w = <<">","=">> THEN "Gte"
  ELSE IF w = <<"<","<">> THEN "Shl"
  ELSE IF w = <<">",">">> THEN "Shr"
  ELSE "none"

C10_TwoCharOperators ==
  /\ \A o \in Outs :
       TwoCharOperator(input, o.start) # "none" =>
         o = Yield(TwoCharOperator(input, o.start), <<>>, o.start, o.start + 2)
  /\ (pc = "done" /\ input = ExShift) =>
       Results = << Yield("Number", <<"1">>, 0, 1), Yield("Shl", <<>>, 1, 3),
                    Yield("Number", <<"2">>, 3, 4), Yield("Shr", <<>>, 4, 6),
                    Yield("Number", <<"1">>, 6, 7) >>

C10_Witness ==
  /\ pc = "done"
  /\ input = ExShift
  /\ Len(Results) = 5

\* `<=` alone has been read
C10_WitnessLte ==
  /\ pc = "done"
  /\ Results = <<Yield("Lte", <<>>, 0, 2)>>

\* C11: the scanner never yields a SingleLineComment, MultiLineComment or
\* Whitespace token: a line comment, a closed block comment and a run of
\* space, tab, carriage return and form feed each end in a discard, and no
\* result starts on a space character or spans a discarded region;
\* `let x = 3` yields exactly Let, Name("x"), Equals, Number(3).
Trivia == {"SingleLineComment", "MultiLineComment", "Whitespace"}

C11_TriviaNeverYielded ==
  /\ \A o \in Outs :
       /\ IsYield(o) => o.kind \notin Trivia
       /\ IsYield(o) => At(input, o.start) \notin HSpace
       /\ (At(input, o.start) \in HSpace \/ (At(input, o.start) = "/" /\ At(input, o.start + 1) = "/"))
            => o.disp = "skip"
       /\ o.disp = "skip" => o.kind \in Trivia
  /\ (pc = "done" /\ input = ExLet) =>
       Results = << Yield("Let", <<>>, 0, 3), Yield("Name", <<"x">>, 4, 5),
                    Yield("Equals", <<>>, 6, 7), Yield("Number", <<"3">>, 8, 9) >>

\* `x /*c*/ //d` newline `#` has been drained: three runs of whitespace, a
\* block comment and a line comment were passed and three results returned
C11_Witness ==
  /\ pc = "done"
  /\ input = ExMixed
  /\ Len(Results) = 3
  /\ \A k \in Trivia : \E o \in Outs : o.disp = "skip" /\ o.kind = k

\* `let x = 3` has been drained
C11_WitnessLet ==
  /\ pc = "done"
  /\ input = ExLet
  /\ Len(Results) = 4

\* C12: a single-line comment consumes `//` and the characters after it up
\* to, not including, the next newline: its span holds no newline and ends
\* on a newline or at the end of the input, the cursor is left there by the
\* step that discards it, and when a newline follows, the next result is
\* NewLine, spanning exactly that newline.
IsLineComment(o) == o.disp = "skip" /\ o.kind = "SingleLineComment"

C12_LineCommentStopsAtNewline ==
  \A i \in 1..Len(outcomes) :
    LET o == outcomes[i] IN
    IsLineComment(o) =>
      /\ Slice(input, o.start, o.start + 2) = <<"/","/">>
      /\ \A k \in o.start..(o.end - 1) : At(input, k) # "\n"
      /\ o.end = Len(input) \/ At(input, o.end) = "\n"
      /\ (i = Len(outcomes) /\ pc = "lex") => token_end = o.end /\ token_start = o.end
      /\ (i < Len(outcomes) /\ At(input, o.end) = "\n") =>
           outcomes[i + 1] = Yield("NewLine", <<>>, o.end, o.end + 1)

\* a line comment with text in it has been passed and the newline after it
\* returned as NewLine
C12_Witness ==
  \E i \in 1..(Len(outcomes) - 1) :
    /\ IsLineComment(outcomes[i])
    /\ outcomes[i].end > outcomes[i].start + 2
    /\ outcomes[i + 1].kind = "NewLine"

\* the step that discards a line comment has just left the cursor on the
\* newline
C12_WitnessCursor ==
  /\ pc = "lex"
  /\ outcomes # <<>>
  /\ IsLineComment(Last(outcomes))
  /\ token_end = Last(outcomes).end
  /\ At(input, token_end) = "\n"

\* C13: a character that starts no lexeme (`#`, a lone `!`, a non-ASCII
\* character other than the lambda glyph) produces exactly one
\* InvalidCharacter whose span starts at the character's offset and covers
\* that character and nothing more, and the results for the rest of the
\* input are those of a fresh scanner lexing the rest on its own.
Unrecognized(s, p) ==
  LET b == At(s, p) IN
  /\ p < Len(s)
  /\ b \notin IdentStart \cup Digit \cup {"@"} \cup Punctuation \cup HSpace \cup {"\n"}
  /\ <<b, At(s, p + 1)>> # LambdaBytes
  /\ ~(b = "!" /\ At(s, p + 1) = "=")

\* the results after outcome i, with offsets counted from offset e
ResultsAfter(i, e) ==
  LET rest == SelectSeq(SubSeq(outcomes, i + 1, Len(outcomes)), IsYield) IN
  [k \in 1..Len(rest) |-> [rest[k] EXCEPT !.start = @ - e, !.end = @ - e]]

C13_InvalidCharacterRecovery ==
  \A i \in 1..Len(outcomes) :
    LET o == outcomes[i] IN
    Unrecognized(input, o.start) =>
      /\ o = Yield("InvalidCharacter", <<>>, o.start, o.start + CharWidth(input, o.start))
      /\ i < Len(outcomes) => outcomes[i + 1].start = o.end
      /\ pc = "done" => ResultsAfter(i, o.end) = Lex(Slice(input, o.end, Len(input)))

\* `#` has been rejected and tokens after it returned, to the end of input
C13_Witness ==
  /\ pc = "done"
  /\ \E i \in 1..Len(outcomes) :
       /\ At(input, outcomes[i].start) = "#"
       /\ outcomes[i].kind = "InvalidCharacter"
       /\ Len(ResultsAfter(i, outcomes[i].end)) >= 2

\* a three-byte character has been rejected as one InvalidCharacter
C13_WitnessWide ==
  \E o \in Outs :
    /\ o.kind = "InvalidCharacter"
    /\ At(input, o.start) \in Lead3Bytes
    /\ o.end = o.start + 3

\* C14: a result that starts on a digit starts a maximal run of digits and
\* spans all of it; when the run's value fits the unsigned integer behind
\* Number the result is Number of exactly that value, and when it does not,
\* the result is one error over the whole run: no Number carries a value
\* other than its lexeme's (none truncated, wrapped or clamped), and no run
\* is split or read again under another pattern.
C14_NumberOutOfRange ==
  \A i \in 1..Len(outcomes) :
    LET o == outcomes[i] IN
    /\ At(input, o.start) \in Digit =>
         /\ o.start = 0 \/ At(input, o.start - 1) \notin Digit
         /\ o.end = RunEnd(input, o.start, Digit)
         /\ IF DigitsLeq(Canonical(Text(o)), NumberMax)
              THEN o = Yield("Number", Canonical(Text(o)), o.start, o.end)
              ELSE o = Yield("InvalidCharacter", <<>>, o.start, o.end)
         /\ i < Len(outcomes) => outcomes[i + 1].start = o.end
    /\ o.kind = "Number" =>
         /\ At(input, o.start) \in Digit
         /\ o.payload = Canonical(Text(o))
         /\ DigitsLeq(o.payload, NumberMax)

\* the twenty digits of 2^64 have been rejected as one error, and the
\* scanner has gone on to the token after them
C14_Witness ==
  \E i \in 1..(Len(outcomes) - 1) :
    /\ outcomes[i].kind = "InvalidCharacter"
    /\ Text(outcomes[i]) = TooBig
    /\ outcomes[i + 1].kind = "Semicolon"

\* a run longer than any value's digits has been rejected whole
C14_WitnessLong ==
  \E o \in Outs :
    /\ o.kind = "InvalidCharacter"
    /\ At(input, o.start) \in Digit
    /\ o.end - o.start > Len(NumberMax)

\* the largest value has been accepted
C14_WitnessMax ==
  \E o \in Outs : o.kind = "Number" /\ o.payload = NumberMax

\* C15: the comment sub-scan has no maximum nesting depth: whatever the
\* depth, reading one more `/*` inside the comment leaves the scan inside the
\* comment and one level deeper, so that n openers are closed by n closers
\* for every n; no overflow or wrap of depth ends the comment or fails the
\* scan.
C15_DepthUnbounded ==
  [][ (pc = "comment" /\ start + comment < Len(input) /\ IsOpen(input, start + comment))
        => (pc' = "comment" /\ depth' > depth /\ depth' - 1 = depth) ]_vars

\* C16: in the comment sub-scan depth is 1 on entry, changes by exactly +1
\* on Open, -1 on Close and 0 on Other, is at least 1 at the start of every
\* iteration of the loop, is never negative, and is exactly 0 when the loop
\* exits through `break`; the comment is discarded only in that case.
C16_DepthInvariant ==
  [][ /\ depth >= 0 /\ depth' >= 0
      /\ pc = "comment" => depth >= 1
      /\ (pc # "comment" /\ pc' = "comment") => depth' = 1
      /\ (pc = "comment" /\ start + comment < Len(input) /\ pc' # "panic") =>
           LET p == start + comment IN
           depth' = (IF IsOpen(input, p) THEN depth + 1
                     ELSE IF IsClose(input, p) THEN depth - 1 ELSE depth)
      /\ (pc = "comment" /\ pc' = "lex") => depth' = 0
      /\ (Len(outcomes') > Len(outcomes) /\ IsComment(Last(outcomes'))) =>
           (pc = "comment" /\ depth' = 0)
    ]_vars

\* C17: inside a comment the delimiters are read left to right without
\* overlap, a delimiter before a plain character: the depth is 1 plus the
\* openers minus the closers of that reading of the text passed so far
\* (after the opener, `/*/` is Open then Other and `**/` is Other then
\* Close), and a discarded comment ends at the first position of that
\* reading where the closers are one more than the openers.
\* openers minus closers of the non-overlapping reading of s from p to q;
\* more than any such difference when q is not a position of that reading
RECURSIVE Balance(_, _, _)
Balance(s, p, q) ==
  IF p = q THEN 0
  ELSE IF p > q THEN Len(s) + 2
  ELSE IF IsOpen(s, p) THEN Balance(s, p + 2, q) + 1
  ELSE IF IsClose(s, p) THEN Balance(s, p + 2, q) - 1
  ELSE Balance(s, p + CharWidth(s, p), q)

C17_NonOverlappingScan ==
  /\ pc = "comment" => depth = 1 + Balance(input, start, start + comment)
  /\ \A o \in Outs :
       IsComment(o) =>
         /\ 1 + Balance(input, o.start + 2, o.end) = 0
         /\ \A q \in (o.start + 2)..(o.end - 1) : 1 + Balance(input, o.start + 2, q) >= 1

\* after the opener, `/*/` has been read as Open then Other: the depth is 2
C17_Witness ==
  /\ pc = "comment"
  /\ comment = 3
  /\ depth = 2
  /\ Slice(input, start, start + 3) = <<"/","*","/">>

\* after the opener, `**/` has been read as Other then Close
C17_WitnessStar ==
  /\ input = <<"/","*","*","*","/">>
  /\ outcomes = <<Discard("MultiLineComment", 0, 5)>>

\* `/*/*/ */*/` has been discarded whole, well past its first `*/` substring
C17_WitnessSubstring ==
  /\ input = ExOverlap
  /\ outcomes = <<Discard("MultiLineComment", 0, 10)>>
  /\ IsClose(input, 3)

\* C18: the sub-scan does not move the primary cursor before it succeeds:
\* all through the loop the primary span is the two-byte opener and the
\* cursor sits just after it, however far the sub-scanner has read; an
\* UnclosedComment error spans exactly that opener, leaves the cursor just
\* after it, and the next outcome starts there.
C18_UnclosedLeavesCursor ==
  /\ pc = "comment" =>
       /\ IsOpen(input, token_start)
       /\ token_end = token_start + 2
       /\ start = token_end
  /\ \A i \in 1..Len(outcomes) :
       LET o == outcomes[i] IN
       o.kind = "UnclosedComment" =>
         /\ IsOpen(input, o.start)
         /\ o.end = o.start + 2
         /\ (i = Len(outcomes) /\ pc = "idle") =>
              /\ token_start = o.start
              /\ token_end = o.end
         /\ i < Len(outcomes) => outcomes[i + 1].start = o.end

\* the sub-scanner has read text to the end of the input and failed; the
\* primary cursor is still just after the opener
C18_Witness ==
  /\ pc = "idle"
  /\ outcomes # <<>>
  /\ Last(outcomes).kind = "UnclosedComment"
  /\ comment >= 3
  /\ token_end = token_start + 2
  /\ token_end < Len(input)

\* C19: the two kinds of comment do not interfere.  A `/*` inside a line
\* comment opens nothing: the line comment still runs to its newline or to
\* the end of the input, no outcome starts inside it, and comment() is never
\* entered for an opener inside it.  A `//` inside a block comment hides
\* nothing: a block comment whose text holds `//` still ends just after the
\* closer that matches its opener, and is an error only when there is none.
HasLineMarker(s, a, b) ==
  \E k \in a..(b - 2) : At(s, k) = "/" /\ At(s, k + 1) = "/"

C19_CommentKindsIndependent ==
  \A o \in Outs :
    /\ IsLineComment(o) =>
         /\ o.end = Len(input) \/ At(input, o.end) = "\n"
         /\ \A q \in (o.start + 1)..(o.end - 1) :
              /\ \A u \in Outs : u.start # q
              /\ ~(pc = "comment" /\ token_start = q)
    /\ (IsOpen(input, o.start) /\ CommentEnd(input, o.start + 2) # -1
          /\ HasLineMarker(input, o.start + 2, CommentEnd(input, o.start + 2))) =>
         o = Discard("MultiLineComment", o.start, CommentEnd(input, o.start + 2))
    /\ (IsOpen(input, o.start) /\ CommentEnd(input, o.start + 2) = -1
          /\ HasLineMarker(input, o.start + 2, Len(input))) =>
         o.kind = "UnclosedComment"

\* a line comment holding `/*` has been passed, the text after its newline
\* lexed, and no comment error raised
C19_Witness ==
  /\ pc = "done"
  /\ \E o \in Outs :
       /\ IsLineComment(o)
       /\ \E q \in (o.start + 2)..(o.end - 2) : IsOpen(input, q)
       /\ o.end < Len(input)
  /\ \A o \in Outs : o.kind # "UnclosedComment"
  /\ Len(Results) >= 2

\* a block comment holding `//` and, on the same line, its closer has been
\* discarded
C19_WitnessBlock ==
  \E o \in Outs :
    /\ IsComment(o)
    /\ HasLineMarker(input, o.start + 2, o.end - 2)
    /\ \A k \in o.start..(o.end - 1) : At(input, k) # "\n"

\* C20: every token the scanner yields other than NewLine and the errors
\* (an operator, a punctuation mark, a keyword, Lambda, a Name, a Number) is
\* read back from its rendering: a fresh scanner over the text the token is
\* written as yields exactly that token, over the whole text, and nothing
\* else; Lambda is written as the lambda glyph whether it was read from `@`
\* or from the glyph.
RoundTrips(o) ==
  LET text == Render(o.kind, o.payload) IN
  Lex(text) = <<Yield(o.kind, o.payload, 0, Len(text))>>

C20_RenderRoundTrip ==
  \A o \in Outs :
    /\ (IsYield(o) /\ ~IsError(o) /\ o.kind # "NewLine") => RoundTrips(o)
    /\ o.kind = "Lambda" => Render(o.kind, o.payload) = LambdaBytes

\* a Lambda read from `@`, a Name and a Number have been yielded and each is
\* read back from its rendering
C20_Witness ==
  /\ \E o \in Outs : o.kind = "Lambda" /\ Text(o) = <<"@">> /\ RoundTrips(o)
  /\ \E o \in Outs : o.kind = "Lambda" /\ Text(o) = LambdaBytes /\ RoundTrips(o)

\* every one-byte operator and punctuation mark has been yielded
C20_WitnessOps ==
  /\ pc = "done"
  /\ input = ExOps
  /\ Len(Results) = 11
  /\ \A i \in 1..11 : RoundTrips(Results[i])

\* a number written with leading zeros is read back from its value's digits
C20_WitnessNumber ==
  \E o \in Outs :
    /\ o.kind = "Number"
    /\ Text(o) # o.payload
    /\ RoundTrips(o)

\* a shift has been yielded and is read back from its rendering
C20_WitnessShift ==
  \E o \in Outs : o.kind = "Shl" /\ RoundTrips(o)

====
